---- MODULE Spec2Model ----
(***************************************************************************)
(* Model of aurora/interface/cycling/technique_widget.py:                  *)
(*   build_parameter_widget(param_obj)  -> one row (checkbox, input)       *)
(*   TechniqueParametersWidget          -> the form built from a technique *)
(*                                                                         *)
(* Python values are records [t, m, e, s]: t is the Python type name, a    *)
(* number is m * 10^e with a one-digit mantissa m (so that 1e99 and the    *)
(* small values a user types live in one ordered domain), s is the text of *)
(* a str.  The ipywidgets controls are modelled by the traits the source   *)
(* reads and writes: value, disabled, options, min, max.                   *)
(***************************************************************************)
EXTENDS Integers, Sequences, FiniteSets, TLC

VARIABLES
    technique,              \* the argument of TechniqueParametersWidget(...)
    pc,                     \* "new" | "ready" | "raised" for a form, "idle" for a direct call
    raised,                 \* name of the exception __init__ raised, "" if none
    tech_parameters_names,  \* self.tech_parameters_names
    w_tech_parameters,      \* self.w_tech_parameters.children: the rows (HBox)
    w_name,                 \* self.w_name.value
    w_device,               \* self.w_device.value
    created,                \* the widgets __init__ has instantiated, in order
    param_obj,              \* the argument of a direct build_parameter_widget call
    built                   \* the outcome of that call: [exc, hbox]

vars == <<technique, pc, raised, tech_parameters_names, w_tech_parameters,
          w_name, w_device, created, param_obj, built>>

----------------------------------------------------------------------------
(* Bounds of the model *)

\* largest number of parameters of a technique
MaxParams == 2
\* largest digit a user types into a numeric input (edits range over -MaxDigit..MaxDigit)
MaxDigit == 1

----------------------------------------------------------------------------
(* Python values *)

None == [t |-> "NoneType", m |-> 0, e |-> 0, s |-> ""]
BoolV(b) == [t |-> "bool", m |-> IF b THEN 1 ELSE 0, e |-> 0, s |-> ""]
FloatV(m, e) == [t |-> "float", m |-> m, e |-> e, s |-> ""]
IntV(m, e) == [t |-> "int", m |-> m, e |-> e, s |-> ""]
StrV(s) == [t |-> "str", m |-> 0, e |-> 0, s |-> s]

Abs(n) == IF n < 0 THEN -n ELSE n

\* |a| < |b| for numbers with one-digit mantissas
MagLt(a, b) ==
    IF b.m = 0 THEN FALSE
    ELSE IF a.m = 0 THEN TRUE
    ELSE a.e < b.e \/ (a.e = b.e /\ Abs(a.m) < Abs(b.m))

\* a < b
Lt(a, b) ==
    IF a.m < 0 /\ b.m < 0 THEN MagLt(b, a)
    ELSE IF a.m < 0 THEN TRUE
    ELSE IF b.m < 0 THEN FALSE
    ELSE MagLt(a, b)

\* Python's str(): str(1.0) = "1.0", str(None) = "None", str(True) = "True"
str_of(v) ==
    CASE v.t = "NoneType" -> StrV("None")
      [] v.t = "bool" -> StrV(IF v.m = 1 THEN "True" ELSE "False")
      [] v.t = "int" -> StrV(ToString(v.m))
      [] v.t = "float" ->
            StrV(IF v.e = 0 THEN ToString(v.m) \o ".0"
                ELSE ToString(v.m) \o "e+" \o ToString(v.e))
      [] OTHER -> v

----------------------------------------------------------------------------
(* Types: what typing.get_args / get_origin / issubclass see *)

\* a class: its name and the names of the classes of its MRO
Class(name, mro) ==
    [name |-> name, origin |-> "", args |-> <<>>, isclass |-> TRUE, mro |-> mro]
\* a typing special form such as Literal['a', 'b'] or List[int]: not a class
Alias(name, origin, args) ==
    [name |-> name, origin |-> origin, args |-> args, isclass |-> FALSE, mro |-> {}]

NoneType == Class("NoneType", {"NoneType", "object"})
bool == Class("bool", {"bool", "int", "object"})
int == Class("int", {"int", "object"})
float == Class("float", {"float", "object"})
str == Class("str", {"str", "object"})
bytes == Class("bytes", {"bytes", "object"})
NonNegativeFloat ==
    Class("NonNegativeFloat", {"NonNegativeFloat", "ConstrainedFloat", "float", "object"})
PositiveFloat ==
    Class("PositiveFloat", {"PositiveFloat", "ConstrainedFloat", "float", "object"})
NonNegativeInt ==
    Class("NonNegativeInt", {"NonNegativeInt", "ConstrainedInt", "int", "object"})
LiteralAB == Alias("Literal['a', 'b']", "Literal", <<StrV("a"), StrV("b")>>)
ListInt == Alias("List[int]", "list", <<>>)

issubclass(value_type, cls) == cls.name \in value_type.mro

\* Optional[X] and Optional[Union[X, Y]]: get_args() of the annotation of 'value'
Optional(types) == types \o <<NoneType>>

----------------------------------------------------------------------------
(* The ipywidgets controls, by the traits the source uses *)

Checkbox(value, disabled) == [value |-> value, disabled |-> disabled]

Control(kind, options, lo, hi, value) ==
    [kind |-> kind, options |-> options, min |-> lo, max |-> hi,
     value |-> value, disabled |-> FALSE]

\* the CFloat / CInt traits cast what they are given
CFloat(v) == [v EXCEPT !.t = "float"]
CInt(v) == [v EXCEPT !.t = "int"]

\* _BoundedFloat / _BoundedInt validator: min(max(value, self.min), self.max)
Clamp(v, lo, hi) == IF Lt(v, lo) THEN lo ELSE IF Lt(hi, v) THEN hi ELSE v

InOptions(options, v) == \E i \in 1..Len(options) : options[i] = v

\* outcome of a widget constructor: the widget, or the TraitError it raises
Made(w) == [exc |-> "", w |-> w]
NoControl == Control("", <<>>, None, None, None)
TraitError == [exc |-> "TraitError", w |-> NoControl]

\* Dropdown(options=..., value=...): value=None is "no selection"; any other
\* value has to be one of the options
Dropdown(options, value) ==
    IF value = None \/ InOptions(options, value)
    THEN Made(Control("Dropdown", options, None, None, value))
    ELSE TraitError

\* BoundedFloatText(min=, max=, value=): value=None keeps the trait default 0.0
BoundedFloatText(lo, hi, value) ==
    IF value.t \notin {"NoneType", "float", "int", "bool"} THEN TraitError
    ELSE Made(Control("BoundedFloatText", <<>>, CFloat(lo), CFloat(hi),
                      Clamp(IF value = None THEN FloatV(0, 0) ELSE CFloat(value),
                            CFloat(lo), CFloat(hi))))

\* BoundedIntText(min=, max=, value=): value=None keeps the trait default 0
BoundedIntText(lo, hi, value) ==
    IF value.t \notin {"NoneType", "float", "int", "bool"} THEN TraitError
    ELSE Made(Control("BoundedIntText", <<>>, CInt(lo), CInt(hi),
                      Clamp(IF value = None THEN IntV(0, 0) ELSE CInt(value),
                            CInt(lo), CInt(hi))))

\* Text(value=): value=None keeps the trait default ''
Text(value) ==
    IF value.t \notin {"NoneType", "str"} THEN TraitError
    ELSE Made(Control("Text", <<>>, None, None,
                      IF value = None THEN StrV("") ELSE value))

----------------------------------------------------------------------------
(* build_parameter_widget *)

\* ipw.HBox([w_check, w_param, w_units]): children[0] and children[1]; w_units
\* is a constant HTMLMath label and carries no state
HBox(w_check, w_param) == [w_check |-> w_check, w_param |-> w_param]
NoHBox == HBox(Checkbox(FALSE, FALSE), NoControl)

\* outcome of a call: the exception raised ("" if none), the widgets instantiated
\* before it returned or raised, and the row returned
Outcome(exc, widgets, hbox) == [exc |-> exc, created |-> widgets, hbox |-> hbox]

\* isinstance(param_obj, CyclingParameter)
IsCyclingParameter(obj) == obj.cls = "CyclingParameter"

\* tuple(t for t in get_args(value_type) if t != type(None))
types_of(annotation) == SelectSeq(annotation, LAMBDA t : t # NoneType)

\* the Optional[Union] / Optional[all-other-types] split
pick_value_type(types, param_value) ==
    IF Len(types) > 1
    THEN IF \E i \in 1..Len(types) : types[i] = str
         THEN [exc |-> "", value_type |-> str, param_value |-> str_of(param_value)]
         ELSE [exc |-> "NotImplementedError", value_type |-> str, param_value |-> param_value]
    ELSE IF Len(types) = 0
         THEN [exc |-> "IndexError", value_type |-> str, param_value |-> param_value]
         ELSE [exc |-> "", value_type |-> types[1], param_value |-> param_value]

\* 1.e99 and -1.e99
E99 == FloatV(1, 99)
MinusE99 == FloatV(-1, 99)

\* faulty variant: the int test comes before the bool test
dispatch_int_before_bool(value_type) ==
    IF value_type.origin = "Literal" THEN "Literal"
    ELSE IF ~value_type.isclass THEN "TypeError"
    ELSE IF issubclass(value_type, float) THEN "float"
    ELSE IF issubclass(value_type, int) THEN "int"
    ELSE IF issubclass(value_type, bool) THEN "bool"
    ELSE IF issubclass(value_type, str) THEN "str"
    ELSE "else"

\* the conditions of the if / elif chain, in order: the branch taken.
\* issubclass() raises TypeError when value_type is no class
dispatch(value_type) ==
    IF value_type.origin = "Literal" THEN "Literal"
    ELSE IF ~value_type.isclass THEN "TypeError"
    ELSE IF issubclass(value_type, bool) THEN "bool"
    ELSE IF issubclass(value_type, float) THEN "float"
    ELSE IF issubclass(value_type, int) THEN "int"
    ELSE IF issubclass(value_type, str) THEN "str"
    ELSE "else"

\* faulty variant: the NonNegativeFloat test is missing
float_bounds_unbounded(value_type) == <<MinusE99, E99>>

\* value_min, value_max of the float branch
float_bounds(value_type) ==
    IF value_type \in {NonNegativeFloat} THEN <<FloatV(0, 0), E99>> ELSE <<MinusE99, E99>>

\* value_min, value_max of the int branch
int_bounds(value_type) ==
    IF value_type \in {NonNegativeInt} THEN <<IntV(0, 0), E99>> ELSE <<MinusE99, E99>>

\* the bodies of the if / elif chain: the w_param instantiated, or the exception
take_branch(branch, value_type, param_value) ==
    CASE branch = "Literal" -> Dropdown(value_type.args, param_value)
      [] branch = "bool" -> Dropdown(<<BoolV(FALSE), BoolV(TRUE)>>, param_value)
      [] branch = "float" ->
            BoundedFloatText(float_bounds(value_type)[1], float_bounds(value_type)[2],
                             param_value)
      [] branch = "int" ->
            BoundedIntText(int_bounds(value_type)[1], int_bounds(value_type)[2],
                           param_value)
      [] branch = "str" -> Text(param_value)
      [] branch = "TypeError" -> [exc |-> "TypeError", w |-> NoControl]
      [] OTHER -> [exc |-> "NotImplementedError", w |-> NoControl]

\* the if / elif chain that instantiates w_param
make_w_param(value_type, param_value) ==
    take_branch(dispatch(value_type), value_type, param_value)

\* faulty variant: the observer copies the checkbox value without negating it
enable_w_param_not_negated(w_check, w_param) == [w_param EXCEPT !.disabled = w_check.value]

\* def enable_w_param(change=None): w_param.disabled = not (w_check.value)
enable_w_param(w_check, w_param) == [w_param EXCEPT !.disabled = ~w_check.value]

\* faulty variant: the checkbox of a required parameter is left enabled
make_w_check_enabled(obj) == Checkbox(obj.required \/ obj.value # None, FALSE)

\* w_check = ipw.Checkbox(value=required or (value is not None), disabled=required)
make_w_check(obj) == Checkbox(obj.required \/ obj.value # None, obj.required)

\* faulty variant: the default takes precedence over the value
read_param_value_default_first(obj) ==
    IF obj.default_value # None THEN obj.default_value ELSE obj.value

\* param_obj.value if param_obj.value is not None else param_obj.default_value
read_param_value(obj) == IF obj.value # None THEN obj.value ELSE obj.default_value

\* from enable_w_param() to the return, once w_param is instantiated (or not)
finish_row(w_check, made) ==
    IF made.exc # ""
    THEN Outcome(made.exc, <<"Checkbox">>, NoHBox)
    ELSE Outcome("", <<"Checkbox", made.w.kind, "HTMLMath", "HBox">>,
                 HBox(w_check, enable_w_param(w_check, made.w)))

\* from the if / elif chain on, once the value type is picked (or not)
build_input(w_check, picked) ==
    IF picked.exc # ""
    THEN Outcome(picked.exc, <<"Checkbox">>, NoHBox)
    ELSE finish_row(w_check, make_w_param(picked.value_type, picked.param_value))

build_parameter_widget(obj) ==
    IF ~IsCyclingParameter(obj)
    THEN Outcome("TypeError", <<>>, NoHBox)
    ELSE build_input(make_w_check(obj),
                     pick_value_type(types_of(obj.annotation), read_param_value(obj)))

----------------------------------------------------------------------------
(* The parameter schema: aurora.schemas.cycling.CyclingParameter[DataT] with *)
(* value: Optional[DataT], default_value: Optional[DataT], required: bool    *)

Object(cls, annotation, required, value, default_value) ==
    [cls |-> cls, annotation |-> annotation, required |-> required,
     value |-> value, default_value |-> default_value]

CyclingParameter(annotation, required, value, default_value) ==
    Object("CyclingParameter", annotation, required, value, default_value)

\* the values a field of the given type holds once validated
Domain(annotation) ==
    CASE annotation = Optional(<<LiteralAB>>) -> {StrV("a"), StrV("b")}
      [] annotation = Optional(<<bool>>) -> {BoolV(FALSE), BoolV(TRUE)}
      [] annotation = Optional(<<float>>) -> {FloatV(-1, 0), FloatV(1, 0)}
      [] annotation = Optional(<<NonNegativeFloat>>) -> {FloatV(0, 0), FloatV(1, 0)}
      [] annotation = Optional(<<PositiveFloat>>) -> {FloatV(1, 0), FloatV(2, 0)}
      [] annotation = Optional(<<int>>) -> {IntV(-1, 0), IntV(1, 0)}
      [] annotation = Optional(<<NonNegativeInt>>) -> {IntV(0, 0), IntV(1, 0)}
      [] annotation = Optional(<<str>>) -> {StrV("x"), StrV("y")}
      [] annotation = Optional(<<float, str>>) -> {FloatV(1, 0), StrV("C/2")}
      [] annotation = Optional(<<float, int>>) -> {FloatV(1, 0), IntV(1, 0)}
      [] annotation = Optional(<<bytes>>) -> {[t |-> "bytes", m |-> 0, e |-> 0, s |-> "x"]}
      [] annotation = Optional(<<ListInt>>) -> {[t |-> "list", m |-> 0, e |-> 0, s |-> "[1]"]}

Annotations ==
    {Optional(<<LiteralAB>>), Optional(<<bool>>), Optional(<<float>>),
     Optional(<<NonNegativeFloat>>), Optional(<<PositiveFloat>>), Optional(<<int>>),
     Optional(<<NonNegativeInt>>), Optional(<<str>>), Optional(<<float, str>>),
     Optional(<<float, int>>), Optional(<<bytes>>), Optional(<<ListInt>>)}

CyclingParameters ==
    UNION {{CyclingParameter(a, r, v, d) :
                r \in BOOLEAN, v \in Domain(a) \cup {None}, d \in Domain(a) \cup {None}} :
           a \in Annotations}

\* objects with the attributes of a parameter that are no CyclingParameter
OtherObjects ==
    {[p EXCEPT !.cls = "SimpleNamespace"] : p \in
        {q \in CyclingParameters :
             q.annotation \in {Optional(<<float>>), Optional(<<bool>>)} /\ q.value = None}}

NoObject == Object("", <<>>, FALSE, None, None)
NotCalled == Outcome("not called", <<>>, NoHBox)

----------------------------------------------------------------------------
(* The technique schema: the classes of aurora.schemas.cycling.ElectroChemPayloads, *)
(* with name, device: Literal[...] and parameters: Dict[str, CyclingParameter]       *)

ElectroChemPayloads == {"OpenCircuitVoltage", "ConstantVoltage", "ConstantCurrent", "Loop"}

Technique(cls, name, device_options, parameters) ==
    [cls |-> cls, name |-> name, device_options |-> device_options,
     parameters |-> parameters]

\* the i-th key of technique.parameters (dict keys are distinct)
ParamName(i) == "p" \o ToString(i)
Items(objs) == [i \in 1..Len(objs) |-> [pname |-> ParamName(i), pobj |-> objs[i]]]

\* parameters the forms of the main specification are built from
FormParameters ==
    {CyclingParameter(Optional(<<LiteralAB>>), TRUE, None, None),
     CyclingParameter(Optional(<<LiteralAB>>), FALSE, None, StrV("a")),
     CyclingParameter(Optional(<<NonNegativeFloat>>), FALSE, None, FloatV(1, 0)),
     CyclingParameter(Optional(<<float>>), TRUE, FloatV(-1, 0), FloatV(1, 0)),
     CyclingParameter(Optional(<<NonNegativeInt>>), FALSE, IntV(1, 0), None),
     CyclingParameter(Optional(<<float, str>>), FALSE, FloatV(1, 0), None),
     CyclingParameter(Optional(<<str>>), TRUE, None, StrV("x")),
     CyclingParameter(Optional(<<bytes>>), FALSE, None, None)}

SeqsUpTo(S, n) == UNION {[1..k -> S] : k \in 0..n}

TechniqueArgs ==
    {Technique("ConstantCurrent", "CC", <<"worker", "MPG2">>, Items(objs)) :
         objs \in SeqsUpTo(FormParameters, MaxParams)}
    \cup
    {Technique("dict", "CC", <<"worker", "MPG2">>, Items(objs)) :
         objs \in SeqsUpTo(FormParameters, 1)}

NoTechnique == Technique("", "", <<>>, <<>>)
Unset == "<unset>"

----------------------------------------------------------------------------
(* TechniqueParametersWidget.__init__ *)

RECURSIVE Flatten(_)
Flatten(seqs) == IF seqs = <<>> THEN <<>> ELSE Head(seqs) \o Flatten(Tail(seqs))

\* the loop, given the outcome of each call and the index of the first call that
\* raises (0 if none does)
loop_result(items, made_before, outs, stop) ==
    [exc |-> IF stop = 0 THEN "" ELSE outs[stop].exc,
     names |-> [i \in 1..(IF stop = 0 THEN Len(items) ELSE stop) |-> items[i].pname],
     children |-> [i \in 1..(IF stop = 0 THEN Len(items) ELSE stop - 1) |-> outs[i].hbox],
     created |-> made_before
                 \o Flatten([i \in 1..(IF stop = 0 THEN Len(items) ELSE stop) |->
                                outs[i].created])]

first_raising(outs) ==
    IF \A i \in 1..Len(outs) : outs[i].exc = "" THEN 0
    ELSE CHOOSE i \in 1..Len(outs) :
             outs[i].exc # "" /\ \A j \in 1..(i - 1) : outs[j].exc = ""

loop_with(items, made_before, outs) ==
    loop_result(items, made_before, outs, first_raising(outs))

\* for pname, pobj in technique.parameters.items(): append pname, then append
\* build_parameter_widget(pobj), item by item until a call raises; the result
\* holds tech_parameters_names, w_parameters_children, the widgets instantiated
\* (after those in made_before) and the exception that ended the loop
loop_over_parameters(items, made_before) ==
    loop_with(items, made_before,
              [i \in 1..Len(items) |-> build_parameter_widget(items[i].pobj)])

\* the object left behind when the loop has ended
after_loop(tech, looped) ==
    [exc |-> looped.exc,
     w_name |-> tech.name,
     w_device |-> tech.device_options[1],
     names |-> looped.names,
     children |-> IF looped.exc = "" THEN looped.children ELSE <<>>,
     created |-> IF looped.exc = "" THEN looped.created \o <<"VBox", "HBox">>
                 ELSE looped.created]

\* the object left behind by raise ValueError("Invalid technique")
invalid_technique ==
    [exc |-> "ValueError", w_name |-> Unset, w_device |-> Unset,
     names |-> <<>>, children |-> <<>>, created |-> <<>>]

\* faulty variant: the technique is validated after the widgets are built
init_widget_validating_last(tech) ==
    IF tech.cls \notin ElectroChemPayloads
    THEN [after_loop(tech, loop_over_parameters(tech.parameters,
                                                <<"Text", "Dropdown", "HTML">>))
             EXCEPT !.exc = "ValueError", !.children = <<>>]
    ELSE after_loop(tech, loop_over_parameters(tech.parameters,
                                               <<"Text", "Dropdown", "HTML">>))

\* the object __init__ leaves behind: attributes that were never assigned are
\* Unset / empty
init_widget(tech) ==
    IF tech.cls \notin ElectroChemPayloads
    THEN invalid_technique
    ELSE after_loop(tech, loop_over_parameters(tech.parameters,
                                               <<"Text", "Dropdown", "HTML">>))

----------------------------------------------------------------------------
(* The properties of TechniqueParametersWidget *)

\* def tech_name(self)
tech_name == w_name

\* faulty variant: reads every input, whatever its checkbox says
values_of_any_checkbox(children) ==
    [i \in 1..Len(children) |-> children[i].w_param.value]

\* [(w.children[1].value if w.children[0].value else None) for w in children]
values_of(children) ==
    [i \in 1..Len(children) |->
        IF children[i].w_check.value THEN children[i].w_param.value ELSE None]

tech_parameters_values == values_of(w_tech_parameters)

Min(a, b) == IF a < b THEN a ELSE b

\* faulty variant: the "if pvalue is not None" filter is missing
select_parameters_unfiltered(names, values) ==
    [k \in {names[i] : i \in 1..Min(Len(names), Len(values))} |->
        values[CHOOSE i \in 1..Min(Len(names), Len(values)) : names[i] = k]]

\* {pname: pvalue for pname, pvalue in zip(names, values) if pvalue is not None}
\* as a function from the keys; a later pair overrides an earlier one
select_parameters(names, values) ==
    LET n == Min(Len(names), Len(values))
        kept == {i \in 1..n : values[i] # None}
        last(k) == CHOOSE i \in kept :
                       names[i] = k /\ \A j \in kept : names[j] = k => j <= i
    IN  [k \in {names[i] : i \in kept} |-> values[last(k)]]

selected_tech_parameters ==
    select_parameters(tech_parameters_names, tech_parameters_values)

----------------------------------------------------------------------------
(* The form: construction and user interaction *)

\* a caller about to construct the form for a technique
InitForm ==
    /\ technique \in TechniqueArgs
    /\ pc = "new"
    /\ raised = ""
    /\ tech_parameters_names = <<>>
    /\ w_tech_parameters = <<>>
    /\ w_name = Unset
    /\ w_device = Unset
    /\ created = <<>>
    /\ param_obj = NoObject
    /\ built = NotCalled

\* the attributes of self after __init__
Constructed(self) ==
    /\ pc' = IF self.exc = "" THEN "ready" ELSE "raised"
    /\ raised' = self.exc
    /\ tech_parameters_names' = self.names
    /\ w_tech_parameters' = self.children
    /\ w_name' = self.w_name
    /\ w_device' = self.w_device
    /\ created' = self.created

\* TechniqueParametersWidget(technique)
Construct ==
    /\ pc = "new"
    /\ Constructed(init_widget(technique))
    /\ UNCHANGED <<technique, param_obj, built>>

\* faulty variant: unchecking also clears the input
on_check_change_clearing(hbox, value) ==
    HBox([hbox.w_check EXCEPT !.value = value],
         [hbox.w_param EXCEPT !.disabled = ~value,
                              !.value = IF value THEN @ ELSE None])

\* the checkbox's value changes: the observer enable_w_param runs
on_check_change(hbox, value) ==
    HBox([hbox.w_check EXCEPT !.value = value],
         enable_w_param([hbox.w_check EXCEPT !.value = value], hbox.w_param))

\* the user clicks the checkbox of row i (a disabled checkbox takes no clicks)
ToggleCheckbox(i) ==
    /\ pc = "ready"
    /\ i \in 1..Len(w_tech_parameters)
    /\ ~w_tech_parameters[i].w_check.disabled
    /\ w_tech_parameters' =
           [w_tech_parameters EXCEPT
               ![i] = on_check_change(@, ~w_tech_parameters[i].w_check.value)]
    /\ UNCHANGED <<technique, pc, raised, tech_parameters_names, w_name, w_device,
                   created, param_obj, built>>

\* what a user can enter into a control
Entries(w_param) ==
    CASE w_param.kind = "Dropdown" -> {w_param.options[k] : k \in 1..Len(w_param.options)}
      [] w_param.kind = "BoundedFloatText" ->
            {FloatV(d, 0) : d \in -MaxDigit..MaxDigit} \cup {FloatV(1, 100), FloatV(-1, 100)}
      [] w_param.kind = "BoundedIntText" ->
            {IntV(d, 0) : d \in -MaxDigit..MaxDigit} \cup {IntV(1, 100), IntV(-1, 100)}
      [] w_param.kind = "Text" -> {StrV(""), StrV("C/2")}
      [] OTHER -> {}

AllEntries ==
    UNION {Entries(Control(kind, <<StrV("a"), StrV("b"), BoolV(FALSE), BoolV(TRUE)>>,
                           None, None, None)) :
           kind \in {"Dropdown", "BoundedFloatText", "BoundedIntText", "Text"}}

\* the control's validator on an assignment to value
set_value(w_param, v) ==
    IF w_param.kind \in {"BoundedFloatText", "BoundedIntText"}
    THEN [w_param EXCEPT !.value = Clamp(v, w_param.min, w_param.max)]
    ELSE [w_param EXCEPT !.value = v]

\* the user edits the input of row i (a disabled input takes no edits)
EditValue(i, v) ==
    /\ pc = "ready"
    /\ i \in 1..Len(w_tech_parameters)
    /\ ~w_tech_parameters[i].w_param.disabled
    /\ v \in Entries(w_tech_parameters[i].w_param)
    /\ w_tech_parameters' =
           [w_tech_parameters EXCEPT ![i].w_param = set_value(@, v)]
    /\ UNCHANGED <<technique, pc, raised, tech_parameters_names, w_name, w_device,
                   created, param_obj, built>>

\* the user types a step label
EditName(label) ==
    /\ pc = "ready"
    /\ w_name' = label
    /\ UNCHANGED <<technique, pc, raised, tech_parameters_names, w_tech_parameters,
                   w_device, created, param_obj, built>>

\* the user picks a device
SelectDevice(k) ==
    /\ pc = "ready"
    /\ k \in 1..Len(technique.device_options)
    /\ w_device' = technique.device_options[k]
    /\ UNCHANGED <<technique, pc, raised, tech_parameters_names, w_tech_parameters,
                   w_name, created, param_obj, built>>

----------------------------------------------------------------------------
(* Direct calls of build_parameter_widget, over the whole parameter schema *)

BuildArgs == CyclingParameters \cup OtherObjects

\* a caller about to call build_parameter_widget on one object
InitBuild ==
    /\ param_obj \in BuildArgs
    /\ built = NotCalled
    /\ technique = NoTechnique
    /\ pc = "idle"
    /\ raised = ""
    /\ tech_parameters_names = <<>>
    /\ w_tech_parameters = <<>>
    /\ w_name = Unset
    /\ w_device = Unset
    /\ created = <<>>

\* build_parameter_widget(param_obj)
CallBuild ==
    /\ pc = "idle"
    /\ built = NotCalled
    /\ built' = build_parameter_widget(param_obj)
    /\ UNCHANGED <<param_obj, technique, pc, raised, tech_parameters_names,
                   w_tech_parameters, w_name, w_device, created>>

----------------------------------------------------------------------------
Init == InitForm \/ InitBuild

Next ==
    \/ Construct
    \/ \E i \in 1..MaxParams : ToggleCheckbox(i)
    \/ \E i \in 1..MaxParams : \E v \in AllEntries : EditValue(i, v)
    \/ \E label \in {"my step"} : EditName(label)
    \/ \E k \in 1..2 : SelectDevice(k)
    \/ CallBuild

Spec == Init /\ [][Next]_vars

----------------------------------------------------------------------------
(* Claims *)

Rows == 1..Len(w_tech_parameters)
\* the i-th parameter of the technique the form was built from
ParamOf(i) == technique.parameters[i].pobj
Checked(i) == w_tech_parameters[i].w_check.value
InputValue(i) == w_tech_parameters[i].w_param.value

\* C1: once the form is built, tech_parameters_values has one entry per parameter
\* of the technique, in the order of technique.parameters (row i carries the name
\* and the required flag of parameter i), and entry i is the value of row i's
\* input if row i's checkbox is checked and None if it is not.
C1_ValuesFollowCheckboxes ==
    pc = "ready" =>
        /\ Len(tech_parameters_values) = Len(technique.parameters)
        /\ Len(tech_parameters_names) = Len(technique.parameters)
        /\ \A i \in 1..Len(technique.parameters) :
              /\ tech_parameters_names[i] = technique.parameters[i].pname
              /\ w_tech_parameters[i].w_check.disabled = ParamOf(i).required
              /\ Checked(i) => tech_parameters_values[i] = InputValue(i)
              /\ ~Checked(i) => tech_parameters_values[i] = None

\* a form with an unchecked row whose input holds a value and a checked row
\* (the first was built checked, the second unchecked: both have been toggled)
C1_Witness ==
    /\ pc = "ready"
    /\ \E i, j \in Rows :
          /\ ParamOf(i).value # None /\ ~Checked(i) /\ InputValue(i) # None
          /\ ParamOf(j).value = None /\ ~ParamOf(j).required
          /\ Checked(j) /\ InputValue(j) # None

\* C2: selected_tech_parameters maps exactly the names of the rows that are
\* checked and whose input value is not None, each to the value of its own row's
\* input; no value is None and every key is a parameter name of the technique.
C2_SelectedAreCheckedAndSet ==
    pc = "ready" =>
        /\ DOMAIN selected_tech_parameters =
              {tech_parameters_names[i] : i \in {r \in Rows : Checked(r) /\ InputValue(r) # None}}
        /\ \A i \in Rows :
              Checked(i) /\ InputValue(i) # None =>
                  selected_tech_parameters[tech_parameters_names[i]] = InputValue(i)
        /\ \A k \in DOMAIN selected_tech_parameters :
              /\ selected_tech_parameters[k] # None
              /\ \E i \in 1..Len(technique.parameters) : technique.parameters[i].pname = k

\* a form with a checked row that has no selection next to a checked row with a value
C2_Witness ==
    /\ pc = "ready"
    /\ \E i, j \in Rows :
          /\ Checked(i) /\ InputValue(i) = None
          /\ ParamOf(j).value = None /\ ~ParamOf(j).required
          /\ Checked(j) /\ InputValue(j) # None
          /\ DOMAIN selected_tech_parameters = {tech_parameters_names[j]}

\* C6: in every row, built directly or as part of a form, before and after any
\* checkbox change, the input is disabled exactly when the checkbox is unchecked.
C6_InputEnabledIffChecked ==
    /\ pc = "ready" =>
          \A i \in Rows : w_tech_parameters[i].w_param.disabled = ~Checked(i)
    /\ built.exc = "" =>
          built.hbox.w_param.disabled = ~built.hbox.w_check.value

\* a row built checked (optional, with a value) that the user has unchecked
C6_Witness ==
    /\ pc = "ready"
    /\ \E i \in Rows :
          /\ ~ParamOf(i).required /\ ParamOf(i).value # None
          /\ ~Checked(i) /\ w_tech_parameters[i].w_param.disabled

\* the declared value type of a parameter with NoneType discarded
DeclaredTypes(obj) == SelectSeq(obj.annotation, LAMBDA t : t.name # "NoneType")
Called == built # NotCalled
BuiltInput == built.hbox.w_param

\* the outcome of the direct call is the given widget class, resp. exception
Gives(what) ==
    CASE what = "Dropdown of the Literal" ->
            /\ built.exc = "" /\ BuiltInput.kind = "Dropdown"
            /\ BuiltInput.options = DeclaredTypes(param_obj)[1].args
      [] what = "Dropdown False/True" ->
            /\ built.exc = "" /\ BuiltInput.kind = "Dropdown"
            /\ BuiltInput.options = <<BoolV(FALSE), BoolV(TRUE)>>
      [] what \in {"BoundedFloatText", "BoundedIntText", "Text"} ->
            built.exc = "" /\ BuiltInput.kind = what
      [] OTHER -> built.exc = what /\ built.hbox = NoHBox

\* first match in the order Literal, bool, float, int, str; other_class and
\* no_class say what a type matching none of them gives
FirstMatch(t, other_class, no_class) ==
    IF t.origin = "Literal" THEN "Dropdown of the Literal"
    ELSE IF ~t.isclass THEN no_class
    ELSE IF "bool" \in t.mro THEN "Dropdown False/True"
    ELSE IF "float" \in t.mro THEN "BoundedFloatText"
    ELSE IF "int" \in t.mro THEN "BoundedIntText"
    ELSE IF "str" \in t.mro THEN "Text"
    ELSE other_class

\* C3 as stated: the widget follows from the declared value type (NoneType
\* discarded) by first match Literal -> Dropdown of its arguments, bool ->
\* Dropdown False/True, float -> BoundedFloatText, int -> BoundedIntText,
\* str -> Text, any other type (a Union or a non-class annotation included)
\* -> NotImplementedError.
C3_AsStated ==
    Called /\ IsCyclingParameter(param_obj) =>
        LET types == DeclaredTypes(param_obj)
        IN  IF Len(types) = 1
            THEN Gives(FirstMatch(types[1], "NotImplementedError", "NotImplementedError"))
            ELSE Gives("NotImplementedError")

\* C3 amended: when one type remains after discarding NoneType, the widget follows
\* from it by first match Literal -> Dropdown of its arguments, bool -> Dropdown
\* False/True (never BoundedIntText), float -> BoundedFloatText, int ->
\* BoundedIntText, str -> Text, any other class -> NotImplementedError, and an
\* annotation that is neither a Literal nor a class -> TypeError; when several
\* types remain (Optional[Union[...]]) the widget is a Text if str is one of them
\* and NotImplementedError is raised otherwise.
C3_TypeDispatch ==
    Called /\ IsCyclingParameter(param_obj) =>
        LET types == DeclaredTypes(param_obj)
        IN  IF Len(types) = 1
            THEN Gives(FirstMatch(types[1], "NotImplementedError", "TypeError"))
            ELSE IF \E i \in 1..Len(types) : types[i].name = "str"
                 THEN Gives("Text")
                 ELSE Gives("NotImplementedError")

\* a bool parameter built into the False/True Dropdown
C3_Witness ==
    /\ Called /\ IsCyclingParameter(param_obj)
    /\ DeclaredTypes(param_obj) = <<bool>>
    /\ built.exc = "" /\ BuiltInput.kind = "Dropdown"
    /\ BuiltInput.value = BoolV(TRUE)

\* C4: build_parameter_widget raises TypeError for every object that is no
\* CyclingParameter and TechniqueParametersWidget raises ValueError for every
\* technique that is none of the ElectroChemPayloads, in both cases before any
\* widget is instantiated: no checkbox, no input and no tech_parameters_names
\* entry exists afterwards.
C4_InvalidInputRejectedFirst ==
    /\ Called /\ param_obj.cls # "CyclingParameter" =>
          /\ built.exc = "TypeError"
          /\ built.created = <<>>
          /\ built.hbox = NoHBox
    /\ pc \in {"ready", "raised"} /\ technique.cls \notin ElectroChemPayloads =>
          /\ pc = "raised" /\ raised = "ValueError"
          /\ created = <<>>
          /\ w_tech_parameters = <<>>
          /\ tech_parameters_names = <<>>

\* the constructor has rejected an object that is no payload but has a parameter
C4_Witness ==
    /\ pc = "raised" /\ raised = "ValueError"
    /\ technique.cls = "dict" /\ Len(technique.parameters) = 1

\* what C5 says of a row just built from obj; shown is the value the input shows
BuiltAs(obj, hbox, shown) ==
    /\ hbox.w_check.value = (obj.required \/ obj.value # None)
    /\ hbox.w_check.disabled = obj.required
    /\ hbox.w_param.value = shown
    /\ ~obj.required /\ obj.value = None =>
          values_of(<<hbox>>)[1] = None

ValueOrDefault(obj) == IF obj.value # None THEN obj.value ELSE obj.default_value

\* what an input shows when it is given None
EmptyValue(kind) ==
    CASE kind = "BoundedFloatText" -> FloatV(0, 0)
      [] kind = "BoundedIntText" -> IntV(0, 0)
      [] kind = "Text" -> StrV("")
      [] OTHER -> None

ShownAtFirst(obj, kind) ==
    IF Len(DeclaredTypes(obj)) > 1 THEN str_of(ValueOrDefault(obj))
    ELSE IF ValueOrDefault(obj) = None THEN EmptyValue(kind)
    ELSE ValueOrDefault(obj)

\* an optional row built from a parameter without a value reads back as None for
\* as long as its checkbox stays unchecked
NoneUntilChecked ==
    pc = "ready" =>
        \A i \in Rows :
            /\ ~ParamOf(i).required /\ ParamOf(i).value = None
            /\ ~Checked(i) /\ ~w_tech_parameters'[i].w_check.value
            => values_of(w_tech_parameters')[i] = None

\* C5 as stated: right after build_parameter_widget(param_obj) the checkbox is
\* checked iff required or value is not None, it is disabled iff required, and
\* the input shows value if it is not None and default_value otherwise; an
\* optional parameter without a value reads back as None until it is checked.
C5_AsStated ==
    [][/\ CallBuild /\ built'.exc = "" =>
              BuiltAs(param_obj, built'.hbox, ValueOrDefault(param_obj))
       /\ Construct /\ pc' = "ready" =>
              \A i \in 1..Len(technique.parameters) :
                  BuiltAs(ParamOf(i), w_tech_parameters'[i], ValueOrDefault(ParamOf(i)))
       /\ NoneUntilChecked]_vars

\* C5 amended: as stated, except for what the input shows: str(value or default)
\* when the declared type is a Union (the input is a Text), and, when value and
\* default_value are both None, the empty value of the input (no selection for a
\* Dropdown, 0 for a numeric input, '' for a Text).
C5_InitialRow ==
    [][/\ CallBuild /\ built'.exc = "" =>
              BuiltAs(param_obj, built'.hbox,
                      ShownAtFirst(param_obj, built'.hbox.w_param.kind))
       /\ Construct /\ pc' = "ready" =>
              \A i \in 1..Len(technique.parameters) :
                  BuiltAs(ParamOf(i), w_tech_parameters'[i],
                          ShownAtFirst(ParamOf(i), w_tech_parameters'[i].w_param.kind))
       /\ NoneUntilChecked]_vars

\* an optional parameter with a default and no value: built unchecked, the
\* default shown, read back as None
C5_Witness ==
    /\ Called /\ built.exc = ""
    /\ ~param_obj.required /\ param_obj.value = None /\ param_obj.default_value # None
    /\ ~built.hbox.w_check.value
    /\ BuiltInput.value = param_obj.default_value
    /\ values_of(<<built.hbox>>)[1] = None

\* what C7 says of the row of a required parameter, but for selected_tech_parameters
RequiredRowStaysSelected(i) ==
    /\ Checked(i)
    /\ w_tech_parameters[i].w_check.disabled
    /\ ~w_tech_parameters[i].w_param.disabled
    /\ tech_parameters_values[i] = InputValue(i)

\* C7 as stated: the row of a required parameter stays checked (its checkbox is
\* disabled), its input stays enabled, its entry of tech_parameters_values is the
\* input's value, and its name is in selected_tech_parameters.
C7_AsStated ==
    pc = "ready" =>
        \A i \in Rows :
            ParamOf(i).required =>
                /\ RequiredRowStaysSelected(i)
                /\ tech_parameters_names[i] \in DOMAIN selected_tech_parameters

\* C7 amended: as stated, except that its name is in selected_tech_parameters
\* exactly when its input's value is not None (a required Dropdown built without
\* value and default has no selection until the user picks one).
C7_RequiredAlwaysChecked ==
    pc = "ready" =>
        \A i \in Rows :
            ParamOf(i).required =>
                /\ RequiredRowStaysSelected(i)
                /\ tech_parameters_names[i] \in DOMAIN selected_tech_parameters
                       <=> InputValue(i) # None
                /\ InputValue(i) # None =>
                       selected_tech_parameters[tech_parameters_names[i]] = InputValue(i)

\* a required parameter whose input the user has edited
C7_Witness ==
    /\ pc = "ready"
    /\ \E i \in Rows :
          /\ ParamOf(i).required /\ ParamOf(i).value = FloatV(-1, 0)
          /\ InputValue(i) = FloatV(1, 0)
          /\ selected_tech_parameters[tech_parameters_names[i]] = FloatV(1, 0)

\* the bounds C8 gives a numeric input built from obj
BoundsAsDeclared(obj, w_param) ==
    LET name == DeclaredTypes(obj)[1].name
    IN  /\ w_param.kind = "BoundedFloatText" =>
              /\ w_param.min = IF name = "NonNegativeFloat" THEN FloatV(0, 0) ELSE FloatV(-1, 99)
              /\ w_param.max = FloatV(1, 99)
        /\ w_param.kind = "BoundedIntText" =>
              /\ w_param.min = IF name = "NonNegativeInt" THEN IntV(0, 0) ELSE IntV(-1, 99)
              /\ w_param.max = IntV(1, 99)

IsNonNegative(obj) ==
    /\ Len(DeclaredTypes(obj)) = 1
    /\ DeclaredTypes(obj)[1].name \in {"NonNegativeFloat", "NonNegativeInt"}

\* C8: a numeric input has the lower bound 0 for NonNegativeFloat and
\* NonNegativeInt and -1e99 for every other float or int type, and the upper
\* bound 1e99; the value read back for a non-negative parameter is never below 0.
C8_NumericBounds ==
    /\ Called /\ built.exc = "" => BoundsAsDeclared(param_obj, BuiltInput)
    /\ pc = "ready" =>
          \A i \in Rows :
              /\ BoundsAsDeclared(ParamOf(i), w_tech_parameters[i].w_param)
              /\ IsNonNegative(ParamOf(i)) =>
                    /\ ~Lt(InputValue(i), [InputValue(i) EXCEPT !.m = 0, !.e = 0])
                    /\ tech_parameters_values[i] \in {None, InputValue(i)}

\* a non-negative input that holds 0 next to an input clamped to the upper bound
C8_Witness ==
    /\ pc = "ready"
    /\ \E i, j \in Rows :
          /\ IsNonNegative(ParamOf(i)) /\ Checked(i)
          /\ tech_parameters_values[i] = FloatV(0, 0)
          /\ tech_parameters_values[j] = FloatV(1, 99)

\* C9: a step that changes the checkbox of row i (a click on it) changes, besides
\* the checkbox, the disabled flag of that row's input and nothing else: not the
\* row's input value, not another row, not the step label, the device or
\* tech_parameters_names; the value of an input does not change while its row is
\* unchecked, so that unchecking and re-checking reads back the same value; and
\* a click or an edit in one row leaves the entries read back for the other rows
\* unchanged.
C9_ToggleFrame ==
    [][\A i \in Rows :
          LET clicked == w_tech_parameters'[i].w_check.value # Checked(i)
              edited == w_tech_parameters'[i].w_param.value # InputValue(i)
          IN  /\ clicked =>
                    /\ w_tech_parameters'[i].w_param =
                           [w_tech_parameters[i].w_param EXCEPT !.disabled = Checked(i)]
                    /\ w_tech_parameters'[i].w_check =
                           [w_tech_parameters[i].w_check EXCEPT !.value = ~Checked(i)]
                    /\ \A j \in Rows \ {i} : w_tech_parameters'[j] = w_tech_parameters[j]
                    /\ w_name' = w_name /\ w_device' = w_device
                    /\ tech_parameters_names' = tech_parameters_names
              /\ ~Checked(i) \/ ~w_tech_parameters'[i].w_check.value => ~edited
              /\ clicked \/ edited =>
                    \A j \in Rows \ {i} :
                        values_of(w_tech_parameters')[j] = tech_parameters_values[j]]_vars

\* a row built unchecked that was checked, edited and unchecked again: its input
\* keeps the edited value
C9_Witness ==
    /\ pc = "ready"
    /\ Len(w_tech_parameters) = 2
    /\ \E i \in Rows :
          /\ ~ParamOf(i).required /\ ParamOf(i).value = None
          /\ ParamOf(i).default_value = FloatV(1, 0)
          /\ ~Checked(i) /\ InputValue(i) = FloatV(0, 0)

====
